---- MODULE Spec2Model ----
(***************************************************************************)
(* A model of mdbook-spec's grammar parser (src/grammar/parser.rs): the    *)
(* scanner over an input text, the recursive-descent expression parser,    *)
(* parse_grammar's registration loop over a Grammar registry, and the      *)
(* position translation used by diagnostics.                               *)
(*                                                                         *)
(* Texts are sequences of one-character strings.  The model's alphabet is  *)
(* ASCII, so a character is one byte and a byte offset i of the program    *)
(* (0-based) is the position i+1 of the sequence.                          *)
(***************************************************************************)
EXTENDS Integers, Sequences, FiniteSets, TLC

VARIABLES
    grammar,   \* the caller's Grammar: name_order and productions
    call,      \* the last completed parse_grammar call: arguments, outcome, history
    calls,     \* number of parse_grammar calls made so far
    pos        \* the last translate_position evaluation

vars == <<grammar, call, calls, pos>>

(***************************************************************************)
(* Bounds of the model.                                                    *)
(***************************************************************************)
MaxCalls == 2
MaxTextLen == 4
MaxAlts == 2
MaxSeqLen == 2
MaxIndent == 2

(***************************************************************************)
(* Options, characters and text helpers.                                   *)
(***************************************************************************)
None == [some |-> FALSE, v |-> <<>>]
Some(x) == [some |-> TRUE, v |-> x]

Lower ==
    {"a","b","c","d","e","f","g","h","i","j","k","l","m",
     "n","o","p","q","r","s","t","u","v","w","x","y","z"}
Upper ==
    {"A","B","C","D","E","F","G","H","I","J","K","L","M",
     "N","O","P","Q","R","S","T","U","V","W","X","Y","Z"}
Digits == {"0","1","2","3","4","5","6","7","8","9"}

\* the backtick character, which no string literal of the language can hold
BT == "backtick"

\* char::is_alphanumeric, on the ASCII alphabet of the model
is_alphanumeric(ch) == ch \in Lower \cup Upper \cup Digits

\* the predicate of parse_name: |c| c.is_alphanumeric() || c == '_'
NameChars == Lower \cup Upper \cup Digits \cup {"_"}

\* input[a..b]
Slice(s, a, b) == SubSeq(s, a + 1, b)

\* input[i..].starts_with(lit)
StartsWith(s, i, lit) ==
    /\ i + Len(lit) <= Len(s)
    /\ \A k \in 1..Len(lit) : s[i + k] = lit[k]

\* length of the longest run of characters of `set` from offset i
RunLen(s, i, set) ==
    CHOOSE k \in 0..(Len(s) - i) :
        /\ \A j \in 1..k : s[i + j] \in set
        /\ (k = Len(s) - i \/ s[i + k + 1] \notin set)

\* length of the longest run of characters outside `excl` from offset i
RunLenNot(s, i, excl) ==
    CHOOSE k \in 0..(Len(s) - i) :
        /\ \A j \in 1..k : s[i + j] \notin excl
        /\ (k = Len(s) - i \/ s[i + k + 1] \in excl)

Min(a, b) == IF a <= b THEN a ELSE b

\* LET for a computed value: v is evaluated once and F applied to the value
Let(v, F(_)) == CHOOSE y \in {F(r) : r \in {v}} : TRUE

(***************************************************************************)
(* translate_position and str::lines.                                      *)
(***************************************************************************)
\* strip_suffix('\r') of a line that ended in "\n"
StripCr(body) ==
    IF Len(body) >= 1 /\ body[Len(body)] = "\r"
    THEN SubSeq(body, 1, Len(body) - 1) ELSE body

RECURSIVE Lines(_)
\* str::lines: split after each "\n"; a line loses its "\n" and then a "\r"
\* before it; no empty line follows a final "\n".
Lines(s) ==
    IF s = <<>> THEN <<>>
    ELSE Let(RunLenNot(s, 0, {"\n"}), LAMBDA nl :
         IF nl = Len(s) THEN <<s>>
         ELSE Let(SubSeq(s, nl + 2, Len(s)), LAMBDA rest :
              <<StripCr(SubSeq(s, 1, nl))>> \o Lines(rest)))

RECURSIVE translate_loop(_, _, _, _, _)
\* the for loop of translate_position, from the k-th line on
translate_loop(lines, k, line_start, line_number, index) ==
    IF k > Len(lines)
    THEN [line |-> <<>>, lineno |-> line_number + 1, col |-> 0]
    ELSE Let(line_start + Len(lines[k]), LAMBDA line_end :
         IF index >= line_start /\ index <= line_end
         THEN [line |-> lines[k], lineno |-> line_number + 1,
               col |-> index - line_start + 1]
         ELSE Let(line_number + 1, LAMBDA number :
              translate_loop(lines, k + 1, line_end + 1, number, index)))

translate_position(input, index) ==
    IF input = <<>> THEN [line |-> <<>>, lineno |-> 0, col |-> 0]
    ELSE Let(Lines(input), LAMBDA lines :
         translate_loop(lines, 1, 0, 0, Min(index, Len(input))))

(***************************************************************************)
(* The scanner: Parser { input, index }.  A parser value p carries index   *)
(* and a history, log, of every operation that read or moved the index:    *)
(* [op, from, to, hit], from and to the index before and after, hit        *)
(* whether the operation matched.  Each operation returns [p, val].        *)
(***************************************************************************)
NewParser == [index |-> 0, log |-> <<>>]

Logged(p, op, to, hit) ==
    [index |-> to,
     log |-> Append(p.log, [op |-> op, from |-> p.index, to |-> to, hit |-> hit])]

take_while(s, p, set) ==
    Let(RunLen(s, p.index, set), LAMBDA upper :
        [p |-> Logged(p, "take_while", p.index + upper, TRUE),
         val |-> Slice(s, p.index, p.index + upper)])

take_str_skip(s, p, lit) ==
    [p |-> Logged(p, "take_str", p.index + Len(lit), StartsWith(s, p.index, lit)),
     val |-> StartsWith(s, p.index, lit)]

\* Returns whether or not the given string is next, and advances the head if it is.
take_str(s, p, lit) ==
    IF StartsWith(s, p.index, lit)
    THEN [p |-> Logged(p, "take_str", p.index + Len(lit), TRUE), val |-> TRUE]
    ELSE [p |-> Logged(p, "take_str", p.index, FALSE), val |-> FALSE]

\* Returns the next byte, or None if eof.
peek(s, p) ==
    [p |-> Logged(p, "peek", p.index, FALSE),
     val |-> IF p.index >= Len(s) THEN None ELSE Some(s[p.index + 1])]

eof(s, p) ==
    [p |-> Logged(p, "eof", p.index, FALSE), val |-> p.index >= Len(s)]

\* Advances zero or more spaces.
space0(s, p) == take_while(s, p, {" "})

(***************************************************************************)
(* The anchored regexes.  A match is [some, len, g1, g2]: whether the      *)
(* regex matches at offset i, the length of the whole match, and the       *)
(* capture groups (options of texts).                                      *)
(***************************************************************************)
NoMatch == [some |-> FALSE, len |-> 0, g1 |-> None, g2 |-> None]
Match(len, g1, g2) == [some |-> TRUE, len |-> len, g1 |-> g1, g2 |-> g2]

\* ^ *\| *
ALT_RE(s, i) ==
    Let(RunLen(s, i, {" "}), LAMBDA a :
        IF StartsWith(s, i + a, <<"|">>)
        THEN Match(a + 1 + RunLen(s, i + a + 1, {" "}), None, None)
        ELSE NoMatch)

\* (\*\?|\+\?|\?|\*|\+) at offset j: the first alternative that matches
RepeatOp(s, j) ==
    IF StartsWith(s, j, <<"*", "?">>) THEN Some(<<"*", "?">>)
    ELSE IF StartsWith(s, j, <<"+", "?">>) THEN Some(<<"+", "?">>)
    ELSE IF StartsWith(s, j, <<"?">>) THEN Some(<<"?">>)
    ELSE IF StartsWith(s, j, <<"*">>) THEN Some(<<"*">>)
    ELSE IF StartsWith(s, j, <<"+">>) THEN Some(<<"+">>)
    ELSE None

\* ^ ?(\*\?|\+\?|\?|\*|\+)
REPEAT_RE(s, i) ==
    Let(IF StartsWith(s, i, <<" ">>) THEN 1 ELSE 0, LAMBDA sp :
    Let(RepeatOp(s, i + sp), LAMBDA withSp :
        IF withSp.some THEN Match(sp + Len(withSp.v), withSp, None)
        ELSE Let(RepeatOp(s, i), LAMBDA without :
             IF without.some THEN Match(Len(without.v), without, None)
             ELSE NoMatch)))

\* ^\{([0-9]+)?\.\.([0-9]+)?\}
RANGE_RE(s, i) ==
    IF ~StartsWith(s, i, <<"{">>) THEN NoMatch
    ELSE Let(i + 1 + RunLen(s, i + 1, Digits), LAMBDA j :
         IF ~StartsWith(s, j, <<".", ".">>) THEN NoMatch
         ELSE Let(j + 2 + RunLen(s, j + 2, Digits), LAMBDA k :
              IF ~StartsWith(s, k, <<"}">>) THEN NoMatch
              ELSE Match(k + 1 - i,
                         IF j = i + 1 THEN None ELSE Some(Slice(s, i + 1, j)),
                         IF k = j + 2 THEN None ELSE Some(Slice(s, j + 2, k)))))

\* ^<open>([^<close>\n]+)<close> : the shape of TERMINAL_RE and PROSE_RE
Delimited(s, i, open, close) ==
    IF ~StartsWith(s, i, <<open>>) THEN NoMatch
    ELSE Let(RunLenNot(s, i + 1, {close, "\n"}), LAMBDA n :
         IF n >= 1 /\ StartsWith(s, i + 1 + n, <<close>>)
         THEN Match(n + 2, Some(Slice(s, i + 1, i + 1 + n)), None)
         ELSE NoMatch)

\* ^B([^B\n]+)B   (B the backtick)
TERMINAL_RE(s, i) == Delimited(s, i, BT, BT)

\* ^<([^>\n]+)>
PROSE_RE(s, i) == Delimited(s, i, "<", ">")

\* ^([^\]\n]+)]
FOOTNOTE_RE(s, i) ==
    Let(RunLenNot(s, i, {"]", "\n"}), LAMBDA n :
        IF n >= 1 /\ StartsWith(s, i + n, <<"]">>)
        THEN Match(n + 1, Some(Slice(s, i, i + n)), None)
        ELSE NoMatch)

\* ^B(.)B-B(.)B   (B the backtick, . any character but "\n")
CHAR_RANGE_RE(s, i) ==
    IF /\ i + 7 <= Len(s)
       /\ s[i + 1] = BT /\ s[i + 2] # "\n" /\ s[i + 3] = BT /\ s[i + 4] = "-"
       /\ s[i + 5] = BT /\ s[i + 6] # "\n" /\ s[i + 7] = BT
    THEN Match(7, Some(<<s[i + 2]>>), Some(<<s[i + 6]>>))
    ELSE NoMatch

\* ^[A-Z0-9]{4}
UNICODE_RE(s, i) ==
    IF i + 4 <= Len(s) /\ \A k \in 1..4 : s[i + k] \in Upper \cup Digits
    THEN Match(4, None, None)
    ELSE NoMatch

Captures(re, s, i) ==
    CASE re = "ALT_RE" -> ALT_RE(s, i)
      [] re = "REPEAT_RE" -> REPEAT_RE(s, i)
      [] re = "RANGE_RE" -> RANGE_RE(s, i)
      [] re = "TERMINAL_RE" -> TERMINAL_RE(s, i)
      [] re = "PROSE_RE" -> PROSE_RE(s, i)
      [] re = "FOOTNOTE_RE" -> FOOTNOTE_RE(s, i)
      [] re = "CHAR_RANGE_RE" -> CHAR_RANGE_RE(s, i)
      [] re = "UNICODE_RE" -> UNICODE_RE(s, i)

\* If the input matches the given regex, it is returned and the head is moved forward.
take_re(s, p, re) ==
    Let(Captures(re, s, p.index), LAMBDA cap :
        IF cap.some
        THEN [p |-> Logged(p, "take_re", p.index + cap.len, TRUE), val |-> cap]
        ELSE [p |-> Logged(p, "take_re", p.index, FALSE), val |-> cap])

(***************************************************************************)
(* Errors and results.  A result is [p, st, val, err] with st "Ok", "Err"  *)
(* (an Error value was returned) or "Panic" (the thread panicked).         *)
(***************************************************************************)
Msg(fmt, args) == [fmt |-> fmt, args |-> args]

NoError == [message |-> Msg("", <<>>), line |-> <<>>, lineno |-> 0, col |-> 0]

error(s, p, message) ==
    Let(translate_position(s, p.index), LAMBDA t :
        [message |-> message, line |-> t.line, lineno |-> t.lineno, col |-> t.col])

Ok(p, v) == [p |-> p, st |-> "Ok", val |-> v, err |-> NoError]
Err(s, p, message) == [p |-> p, st |-> "Err", val |-> None, err |-> error(s, p, message)]
Panic(p) == [p |-> p, st |-> "Panic", val |-> None, err |-> NoError]

\* Expects the next input to be the given string, and advances the head.
expect(s, p, lit, err) ==
    IF ~StartsWith(s, p.index, lit)
    THEN Err(s, Logged(p, "expect", p.index, FALSE), Msg(err, <<>>))
    ELSE Ok(Logged(p, "expect", p.index + Len(lit), TRUE), TRUE)

(***************************************************************************)
(* u32 values.  TLC's integers are narrower than u32, so a u32 is kept as  *)
(* two decimal limbs: hi * LimbBase + lo.                                  *)
(***************************************************************************)
LimbBase == 100000
U32MaxHi == 42949
U32MaxLo == 67295

U32(hi, lo) == [hi |-> hi, lo |-> lo]
U32Max == U32(U32MaxHi, U32MaxLo)
LtU32(x, y) == x.hi < y.hi \/ (x.hi = y.hi /\ x.lo < y.lo)
DigitValue(ch) ==
    CHOOSE d \in 0..9 : ch = <<"0","1","2","3","4","5","6","7","8","9">>[d + 1]

RECURSIVE parse_u32_from(_, _, _)
\* str::parse::<u32> from the k-th digit on, acc the value so far:
\* acc * 10 + digit, checked against u32::MAX
parse_u32_from(digits, k, acc) ==
    IF k > Len(digits) THEN Some(acc)
    ELSE Let(acc.lo * 10 + DigitValue(digits[k]), LAMBDA low :
         Let(U32(acc.hi * 10 + (low \div LimbBase), low % LimbBase), LAMBDA next :
         IF LtU32(U32Max, next) THEN None
         ELSE parse_u32_from(digits, k + 1, next)))

\* m.as_str().parse::<u32>() : None stands for Err(PosOverflow)
parse_u32(digits) == parse_u32_from(digits, 1, U32(0, 0))

(***************************************************************************)
(* Expression, ExpressionKind and Characters.  Every kind is a record of   *)
(* the same fields, of which a variant uses those of its payload.          *)
(***************************************************************************)
Kind(tag, text, n, items, chars, min, max) ==
    [tag |-> tag, text |-> text, n |-> n, items |-> items, chars |-> chars,
     min |-> min, max |-> max]

NoU32 == [some |-> FALSE, v |-> U32(0, 0)]
Leaf(tag, text) == Kind(tag, text, 0, <<>>, <<>>, NoU32, NoU32)
Wrap(tag, e) == Kind(tag, <<>>, 0, <<e>>, <<>>, NoU32, NoU32)
List(tag, es) == Kind(tag, <<>>, 0, es, <<>>, NoU32, NoU32)
Break(n) == Kind("Break", <<>>, n, <<>>, <<>>, NoU32, NoU32)
Charset(chars) == Kind("Charset", <<>>, 0, <<>>, chars, NoU32, NoU32)
RepeatRange(e, a, b) == Kind("RepeatRange", <<>>, 0, <<e>>, <<>>, a, b)

Expression(kind, suffix, footnote) ==
    [kind |-> kind, suffix |-> suffix, footnote |-> footnote]

CharRange(a, b) == [tag |-> "Range", a |-> a, b |-> b, text |-> <<>>]
CharTerminal(text) == [tag |-> "Terminal", a |-> "", b |-> "", text |-> text]
CharNamed(name) == [tag |-> "Named", a |-> "", b |-> "", text |-> name]

box_kind_annotated(kind) == Expression(kind, None, Some(<<"1">>))

box_kind(kind) == Expression(kind, None, None)

(***************************************************************************)
(* The leaf parsers.                                                       *)
(***************************************************************************)
parse_is_root(s, p) == take_str(s, p, <<"@", "r", "o", "o", "t">>)

parse_name(s, p) ==
    Let(take_while(s, p, NameChars), LAMBDA t :
        [p |-> t.p, val |-> IF t.val = <<>> THEN None ELSE Some(t.val)])

parse_nonterminal(s, p) ==
    Let(parse_name(s, p), LAMBDA t :
        [p |-> t.p, val |-> IF t.val.some THEN Some(Leaf("Nt", t.val.v)) ELSE None])

parse_terminal(s, p) ==
    Let(take_re(s, p, "TERMINAL_RE"), LAMBDA t :
        IF t.val.some THEN Ok(t.p, Leaf("Terminal", t.val.g1.v))
        ELSE Err(s, t.p, Msg("unterminated terminal, expected closing backtick", <<>>)))

parse_characters(s, p) ==
    Let(take_re(s, p, "CHAR_RANGE_RE"), LAMBDA r :
    IF r.val.some
    THEN [p |-> r.p, val |-> Some(CharRange(r.val.g1.v[1], r.val.g2.v[1]))]
    ELSE Let(take_re(s, r.p, "TERMINAL_RE"), LAMBDA t :
         IF t.val.some
         THEN [p |-> t.p, val |-> Some(CharTerminal(t.val.g1.v))]
         ELSE Let(parse_name(s, t.p), LAMBDA n :
              [p |-> n.p,
               val |-> IF n.val.some THEN Some(CharNamed(n.val.v)) ELSE None])))

RECURSIVE charset_loop(_, _, _)
\* the loop of parse_charset and what follows it
charset_loop(s, p, characters) ==
    Let(space0(s, p), LAMBDA sp :
    Let(parse_characters(s, sp.p), LAMBDA ch :
    IF ch.val.some
    THEN Let(Append(characters, ch.val.v), LAMBDA pushed : charset_loop(s, ch.p, pushed))
    ELSE IF characters = <<>>
    THEN Err(s, ch.p, Msg("expected at least one character in character group", <<>>))
    ELSE Let(space0(s, ch.p), LAMBDA sp2 :
         Let(expect(s, sp2.p, <<"]">>, "expected closing ]"), LAMBDA cl :
         IF cl.st # "Ok" THEN cl ELSE Ok(cl.p, Charset(characters))))))

parse_charset(s, p) ==
    Let(expect(s, p, <<"[">>, "expected opening ["), LAMBDA op :
        IF op.st # "Ok" THEN op ELSE charset_loop(s, op.p, <<>>))

parse_prose(s, p) ==
    Let(take_re(s, p, "PROSE_RE"), LAMBDA t :
        IF t.val.some THEN Ok(t.p, Leaf("Prose", t.val.g1.v))
        ELSE Err(s, t.p, Msg("unterminated prose, expected closing '>'", <<>>)))

parse_unicode(s, p) ==
    Let(take_re(s, p, "UNICODE_RE"), LAMBDA t :
        IF t.val.some
        THEN Ok(t.p, Leaf("Unicode", Slice(s, p.index, p.index + t.val.len)))
        ELSE Err(s, t.p, Msg("expected 4 hexadecimal uppercase digits after U+", <<>>)))

\* the operand of a negation, by the next byte
neg_operand_any(s, p, next) ==
    IF next = "[" THEN parse_charset(s, p)
    ELSE IF next = BT THEN parse_terminal(s, p)
    ELSE IF next = "<" THEN parse_prose(s, p)
    ELSE Let(parse_nonterminal(s, p), LAMBDA nt :
         IF nt.val.some THEN Ok(nt.p, nt.val.v)
         ELSE Err(s, nt.p,
                  Msg("expected a charset, terminal, or name after ~ negation", <<>>)))

neg_operand(s, p, next) ==
    IF next = "[" THEN parse_charset(s, p)
    ELSE IF next = BT THEN parse_terminal(s, p)
    ELSE Let(parse_nonterminal(s, p), LAMBDA nt :
         IF nt.val.some THEN Ok(nt.p, nt.val.v)
         ELSE Err(s, nt.p,
                  Msg("expected a charset, terminal, or name after ~ negation", <<>>)))

parse_neg_expression(s, p) ==
    Let(expect(s, p, <<"~">>, "expected ~"), LAMBDA tl :
    IF tl.st # "Ok" THEN tl
    ELSE Let(peek(s, tl.p), LAMBDA pk :
         IF ~pk.val.some THEN Err(s, pk.p, Msg("expected expression after ~", <<>>))
         ELSE Let(neg_operand(s, pk.p, pk.val.v), LAMBDA r :
              IF r.st # "Ok" THEN r
              ELSE Ok(r.p, Wrap("NegExpression", box_kind(r.val))))))

RECURSIVE suffix_loop(_, _, _, _)
\* the loop of parse_suffix and the return after it
suffix_loop(s, p, in_backtick, start) ==
    Let(peek(s, p), LAMBDA pk :
    IF ~pk.val.some
    THEN Err(s, pk.p, Msg("failed to find end of _ suffixed text", <<>>))
    ELSE Let(Logged(pk.p, "advance", pk.p.index + 1, TRUE), LAMBDA adv :
         IF pk.val.v = "\n"
         THEN Err(s, adv, Msg("failed to find end of _ suffixed text", <<>>))
         ELSE IF pk.val.v = BT THEN suffix_loop(s, adv, ~in_backtick, start)
         ELSE IF pk.val.v = "_" /\ ~in_backtick
         THEN Let(peek(s, adv), LAMBDA pk2 :
              IF pk2.val.some => pk2.val.v \in {"\n", " "}
              THEN Ok(pk2.p, Some(Slice(s, start, pk2.p.index - 1)))
              ELSE suffix_loop(s, pk2.p, in_backtick, start))
         ELSE suffix_loop(s, adv, in_backtick, start)))

parse_suffix(s, p) ==
    Let(take_str(s, p, <<" ", "_">>), LAMBDA t :
        IF ~t.val THEN Ok(t.p, None)
        ELSE suffix_loop(s, t.p, FALSE, t.p.index))

parse_footnote(s, p) ==
    Let(take_str(s, p, <<"[", "^">>), LAMBDA t :
    IF ~t.val THEN Ok(t.p, None)
    ELSE Let(take_re(s, t.p, "FOOTNOTE_RE"), LAMBDA f :
         IF f.val.some THEN Ok(f.p, Some(f.val.g1.v))
         ELSE Err(s, f.p, Msg("unterminated footnote, expected closing ']'", <<>>))))

(***************************************************************************)
(* The expression parser.                                                  *)
(***************************************************************************)
RECURSIVE parse_expression(_, _)
RECURSIVE parse_seq(_, _)
RECURSIVE parse_expr1(_, _)
RECURSIVE parse_grouped(_, _)

alt_always(es) ==
    IF Len(es) = 0 THEN None
    ELSE Some(Expression(List("Alt", es), None, None))

\* match es.len() of parse_expression
alt_of(es) ==
    IF Len(es) = 0 THEN None
    ELSE IF Len(es) = 1 THEN Some(es[Len(es)])
    ELSE Some(Expression(List("Alt", es), None, None))

\* match es.len() of parse_seq
seq_of(es) ==
    IF Len(es) = 0 THEN None
    ELSE IF Len(es) = 1 THEN Some(es[Len(es)])
    ELSE Some(Expression(List("Sequence", es), None, None))

RECURSIVE expression_loop(_, _, _)
\* the loop of parse_expression, es the sequences pushed so far
expression_loop(s, p, es) ==
    Let(parse_seq(s, p), LAMBDA r :
    IF r.st # "Ok" THEN r
    ELSE IF ~r.val.some THEN Ok(r.p, alt_of(es))
    ELSE Let(Append(es, r.val.v), LAMBDA pushed :
         Let(take_re(s, r.p, "ALT_RE"), LAMBDA alt :
         IF ~alt.val.some THEN Ok(alt.p, alt_of(pushed))
         ELSE expression_loop(s, alt.p, pushed))))

parse_expression(s, p) == expression_loop(s, p, <<>>)

RECURSIVE seq_loop(_, _, _)
\* the loop of parse_seq, es the terms pushed so far
seq_loop(s, p, es) ==
    Let(space0(s, p), LAMBDA sp :
    Let(parse_expr1(s, sp.p), LAMBDA r :
    IF r.st # "Ok" THEN r
    ELSE IF ~r.val.some THEN Ok(r.p, seq_of(es))
    ELSE Let(Append(es, r.val.v), LAMBDA pushed : seq_loop(s, r.p, pushed))))

parse_seq(s, p) == seq_loop(s, p, <<>>)

line_break_lenient(s, p) ==
    Let(eof(s, p), LAMBDA e :
    IF e.val THEN Ok(e.p, None)
    ELSE Let(take_str(s, e.p, <<"\n">>), LAMBDA nl :
         IF nl.val THEN Ok(nl.p, None)
         ELSE Let(take_while(s, nl.p, {" "}), LAMBDA space :
              Ok(space.p, Some(Break(Len(space.val)))))))

\* the "\n" arm of parse_expr1, entered after take_str("\n") matched:
\* the result's val is None for "no term" and Some(kind) otherwise
line_break(s, p) ==
    Let(eof(s, p), LAMBDA e :
    IF e.val THEN Ok(e.p, None)
    ELSE Let(take_str(s, e.p, <<"\n">>), LAMBDA nl :
         IF nl.val THEN Ok(nl.p, None)
         ELSE Let(take_while(s, nl.p, {" "}), LAMBDA space :
              IF Len(space.val) = 0
              THEN Err(s, space.p, Msg("expected indentation on next line", <<>>))
              ELSE Ok(space.p, Some(Break(Len(space.val)))))))

\* a parsed kind as the Some(kind) of the dispatch
Lift(r) == IF r.st # "Ok" THEN r ELSE Ok(r.p, Some(r.val))

\* the dispatch of parse_expr1 on the next input: the result's val is
\* None for "no term" (return Ok(None)) and Some(kind) otherwise
term_kind(s, p, next) ==
    Let(take_str(s, p, <<"U", "+">>), LAMBDA u :
    IF u.val THEN Let(parse_unicode(s, u.p), LAMBDA r : Lift(r))
    ELSE IF is_alphanumeric(s[u.p.index + 1])
    THEN Let(parse_nonterminal(s, u.p), LAMBDA nt :
         IF nt.val.some THEN Ok(nt.p, Some(nt.val.v)) ELSE Panic(nt.p))
    ELSE Let(take_str(s, u.p, <<"\n">>), LAMBDA nl :
         IF nl.val THEN line_break(s, nl.p)
         ELSE IF next = BT THEN Let(parse_terminal(s, nl.p), LAMBDA r : Lift(r))
         ELSE IF next = "[" THEN Let(parse_charset(s, nl.p), LAMBDA r : Lift(r))
         ELSE IF next = "<" THEN Let(parse_prose(s, nl.p), LAMBDA r : Lift(r))
         ELSE IF next = "(" THEN Let(parse_grouped(s, nl.p), LAMBDA r : Lift(r))
         ELSE IF next = "~" THEN Let(parse_neg_expression(s, nl.p), LAMBDA r : Lift(r))
         ELSE Ok(nl.p, None)))

\* match &cap[1] of the REPEAT_RE arm
repeat_kind(op, kind) ==
    CASE op = <<"?">> -> Wrap("Optional", box_kind(kind))
      [] op = <<"*">> -> Wrap("Repeat", box_kind(kind))
      [] op = <<"*", "?">> -> Wrap("RepeatNonGreedy", box_kind(kind))
      [] op = <<"+">> -> Wrap("RepeatPlus", box_kind(kind))
      [] op = <<"+", "?">> -> Wrap("RepeatPlusNonGreedy", box_kind(kind))

\* a captured digit run as Option<u32>: val None when the unwrap panics
range_bound(group) ==
    IF ~group.some THEN Some(NoU32)
    ELSE Let(parse_u32(group.v), LAMBDA n : IF n.some THEN Some(Some(n.v)) ELSE None)

\* the RANGE_RE arm: cap the captures, p the parser after the match
range_kind(s, p, cap, kind) ==
    Let(range_bound(cap.g1), LAMBDA a :
    IF ~a.some THEN Panic(p)
    ELSE Let(range_bound(cap.g2), LAMBDA b :
         IF ~b.some THEN Panic(p)
         ELSE IF a.v.some /\ b.v.some /\ LtU32(b.v.v, a.v.v)
         THEN Err(s, p, Msg("range {a}..{b} is malformed", <<a.v.v, b.v.v>>))
         ELSE Ok(p, RepeatRange(box_kind(kind), a.v, b.v))))

\* the repetition of parse_expr1: the kind after REPEAT_RE or RANGE_RE
term_repetition(s, p, kind) ==
    Let(take_re(s, p, "REPEAT_RE"), LAMBDA rep :
    IF rep.val.some THEN Ok(rep.p, repeat_kind(rep.val.g1.v, kind))
    ELSE Let(take_re(s, rep.p, "RANGE_RE"), LAMBDA rng :
         IF rng.val.some THEN range_kind(s, rng.p, rng.val, kind)
         ELSE Ok(rng.p, kind)))

\* parse_expr1 after the dispatch: the repetition, the suffix, the footnote
term_tail(s, p, kind) ==
    Let(term_repetition(s, p, kind), LAMBDA k :
    IF k.st # "Ok" THEN k
    ELSE Let(parse_suffix(s, k.p), LAMBDA suffix :
         IF suffix.st # "Ok" THEN suffix
         ELSE Let(parse_footnote(s, suffix.p), LAMBDA footnote :
              IF footnote.st # "Ok" THEN footnote
              ELSE Ok(footnote.p, Some(Expression(k.val, suffix.val, footnote.val))))))

parse_expr1(s, p) ==
    Let(peek(s, p), LAMBDA pk :
    IF ~pk.val.some THEN Ok(pk.p, None)
    ELSE Let(term_kind(s, pk.p, pk.val.v), LAMBDA k :
         IF k.st # "Ok" THEN k
         ELSE IF ~k.val.some THEN Ok(k.p, None)
         ELSE term_tail(s, k.p, k.val.v)))

parse_grouped(s, p) ==
    Let(expect(s, p, <<"(">>, "expected opening '('"), LAMBDA op :
    IF op.st # "Ok" THEN op
    ELSE Let(space0(s, op.p), LAMBDA sp :
         Let(parse_expression(s, sp.p), LAMBDA e :
         IF e.st # "Ok" THEN e
         ELSE IF ~e.val.some
         THEN Err(s, e.p, Msg("expected expression in parenthesized group", <<>>))
         ELSE Let(space0(s, e.p), LAMBDA sp2 :
              Let(expect(s, sp2.p, <<")">>, "expected closing ')'"), LAMBDA cl :
              IF cl.st # "Ok" THEN cl
              ELSE Ok(cl.p, Wrap("Grouped", e.val.v)))))))

(***************************************************************************)
(* Productions and the registry.                                           *)
(***************************************************************************)
Production(name, category, expression, path, is_root) ==
    [name |-> name, category |-> category, expression |-> expression,
     path |-> path, is_root |-> is_root]

parse_production(s, p, category, path) ==
    Let(parse_is_root(s, p), LAMBDA root :
    Let(space0(s, root.p), LAMBDA sp :
    Let(parse_name(s, sp.p), LAMBDA name :
    IF ~name.val.some THEN Err(s, name.p, Msg("expected production name", <<>>))
    ELSE Let(expect(s, name.p, <<" ", "-", ">">>, "expected -> arrow"), LAMBDA arrow :
         IF arrow.st # "Ok" THEN arrow
         ELSE Let(parse_expression(s, arrow.p), LAMBDA e :
              IF e.st # "Ok" THEN e
              ELSE IF ~e.val.some THEN Err(s, e.p, Msg("expected an expression", <<>>))
              ELSE Ok(e.p, Production(name.val.v, category, e.val.v, path, root.val)))))))

EmptyGrammar == [name_order |-> <<>>, productions |-> <<>>]

\* HashMap::insert: the map after the insertion and the value it replaced
Insert(map, key, value) ==
    [map |-> [k \in DOMAIN map \cup {key} |-> IF k = key THEN value ELSE map[k]],
     old |-> IF key \in DOMAIN map THEN Some(map[key]) ELSE None]

\* what a parse_grammar call leaves: the registry, the outcome, the parser,
\* and as history the productions parse_production returned, each with the
\* offset its parse started at
Outcome(g, st, err, p, parsed) ==
    [grammar |-> g, st |-> st, err |-> err, p |-> p, parsed |-> parsed]

\* grammar.name_order.push(..) and grammar.productions.insert(..): the
\* registry after both and the production the insert replaced
register(g, prod) ==
    Let(Insert(g.productions, prod.name, prod), LAMBDA ins :
        [grammar |-> [name_order |-> Append(g.name_order, prod.name),
                      productions |-> ins.map],
         dupe |-> ins.old])

RECURSIVE grammar_loop(_, _, _, _, _, _)
\* the loop of parse_grammar
grammar_loop(s, p, g, parsed, category, path) ==
    Let(parse_production(s, p, category, path), LAMBDA r :
    IF r.st # "Ok" THEN Outcome(g, r.st, r.err, r.p, parsed)
    ELSE Let(register(g, r.val), LAMBDA reg :
         Let(Append(parsed, [start |-> p.index, production |-> r.val]), LAMBDA parsed1 :
         IF reg.dupe.some
         THEN Outcome(reg.grammar, "Err",
                      error(s, r.p, Msg("duplicate production {} in grammar",
                                        <<reg.dupe.v.name>>)),
                      r.p, parsed1)
         ELSE Let(take_while(s, r.p, {"\n"}), LAMBDA nls :
              Let(eof(s, nls.p), LAMBDA e :
              IF e.val THEN Outcome(reg.grammar, "Ok", NoError, e.p, parsed1)
              ELSE grammar_loop(s, e.p, reg.grammar, parsed1, category, path))))))

parse_grammar(input, g, category, path) ==
    grammar_loop(input, NewParser, g, <<>>, category, path)

(***************************************************************************)
(* The caller.  Each call of parse_grammar is one step; call keeps the     *)
(* call's input, the description (shape) the input text was written from,  *)
(* the registry before the call (pre), the outcome and the parser's        *)
(* history.  The parser reads none of shape, pre, parsed or log.           *)
(***************************************************************************)
Category == "lexer"
Path == "grammar.md"

NoCall ==
    [input |-> <<>>, shape |-> [fam |-> "none"], pre |-> EmptyGrammar, st |-> "None",
     err |-> NoError, parsed |-> <<>>, index |-> 0, log |-> <<>>]

NoPos == [input |-> <<>>, index |-> 0, line |-> <<>>, lineno |-> 0, col |-> 0]

Init ==
    /\ grammar = EmptyGrammar
    /\ call = NoCall
    /\ calls = 0
    /\ pos = NoPos

ParseGrammar(input, shape) ==
    \E r \in {parse_grammar(input, grammar, Category, Path)} :
        /\ grammar' = r.grammar
        /\ call' = [input |-> input, shape |-> shape, pre |-> grammar, st |-> r.st,
                    err |-> r.err, parsed |-> r.parsed, index |-> r.p.index,
                    log |-> r.p.log]
        /\ calls' = calls + 1
        /\ UNCHANGED pos

TranslatePosition(input, index) ==
    \E t \in {translate_position(input, index)} :
        /\ pos' = [input |-> input, index |-> index, line |-> t.line,
                   lineno |-> t.lineno, col |-> t.col]
        /\ UNCHANGED <<grammar, call, calls>>

(***************************************************************************)
(* Input texts.                                                            *)
(***************************************************************************)
Spaces(n) == [i \in 1..n |-> " "]
Arrow == <<" ", "-", ">">>

RECURSIVE Join(_, _)
Join(texts, sep) ==
    IF Len(texts) = 0 THEN <<>>
    ELSE IF Len(texts) = 1 THEN texts[1]
    ELSE texts[1] \o sep \o Join(Tail(texts), sep)

E(kind) == Expression(kind, None, None)

(***************************************************************************)
(* Registry chunks: one or two productions named a or b, a blank line      *)
(* between them; a body "(" is a syntax error.                             *)
(***************************************************************************)
RegistryNames == {<<"a">>, <<"b">>}
RegistryBodies == {<<"x">>, <<"y">>, <<"(">>}
RegistryProds == [name : RegistryNames, body : RegistryBodies]

RegistryShapes ==
    [fam : {"registry"},
     prods : {<<q>> : q \in RegistryProds}
             \cup {<<q1, q2>> : q1 \in {q \in RegistryProds : q.body # <<"(">>},
                                q2 \in RegistryProds}]

RenderProd(q) == q.name \o Arrow \o <<" ">> \o q.body

RenderRegistry(sh) ==
    Join([i \in 1..Len(sh.prods) |-> RenderProd(sh.prods[i])], <<"\n", "\n">>)

Next ==
    \E sh \in RegistryShapes : \E input \in {RenderRegistry(sh)} :
        /\ calls < MaxCalls
        /\ ParseGrammar(input, sh)

Spec == Init /\ [][Next]_vars

(***************************************************************************)
(* Texts for translate_position: every text of up to MaxTextLen characters *)
(* over a letter, the newline and the carriage return.                     *)
(***************************************************************************)
TextChars == {"a", "\n", "\r"}
Texts == UNION {[1..n -> TextChars] : n \in 0..MaxTextLen}

NextTranslate ==
    \E input \in Texts : \E index \in 0..Len(input) : TranslatePosition(input, index)

SpecTranslate == Init /\ [][NextTranslate]_vars

(***************************************************************************)
(* Chunks of one production a, parsed into an empty registry.  Each family *)
(* of chunks is written from a description (shape) of its expression.      *)
(***************************************************************************)
HeadA == <<"a">> \o Arrow \o <<" ">>
HeadB == <<"b">> \o Arrow \o <<" ">>
Root == <<"@", "r", "o", "o", "t", " ">>
Tick(text) == <<BT>> \o text \o <<BT>>

NtX == E(Leaf("Nt", <<"x">>))
NtZ == E(Leaf("Nt", <<"z">>))
TermY == E(Leaf("Terminal", <<"y">>))

(***************************************************************************)
(* Family alt: up to MaxAlts sequences of up to MaxSeqLen terms, joined by *)
(* a pipe; the terms are taken in turn from AltTermTexts, starting at rot. *)
(***************************************************************************)
AltTermTexts ==
    << <<"x">>, Tick(<<"y">>), <<"z", "?">>,
       <<"(", "x", "|">> \o Tick(<<"y">>) \o <<")">> >>

AltTermTrees ==
    << NtX, TermY, E(Wrap("Optional", NtZ)),
       E(Wrap("Grouped", E(List("Alt", <<NtX, TermY>>)))) >>

Pipes == << <<"|">>, <<" ", "|", " ">>, <<" ", "|">>, <<"|", " ">> >>

SeqLens == UNION {[1..k -> 1..MaxSeqLen] : k \in 1..MaxAlts}

AltShapes == [fam : {"alt"}, lens : SeqLens, rot : 0..3, pipe : 1..4]

RECURSIVE TermsBefore(_, _)
TermsBefore(lens, i) == IF i = 1 THEN 0 ELSE TermsBefore(lens, i - 1) + lens[i - 1]

\* the index in AltTermTexts of the j-th term of the i-th sequence
AltTerm(sh, i, j) == ((sh.rot + TermsBefore(sh.lens, i) + j - 1) % 4) + 1

RenderAlt(sh) ==
    HeadA \o Join([i \in 1..Len(sh.lens) |->
                      Join([j \in 1..sh.lens[i] |-> AltTermTexts[AltTerm(sh, i, j)]],
                           <<" ">>)],
                  Pipes[sh.pipe])

(***************************************************************************)
(* Family range: the term x with a range modifier of two digit runs.       *)
(***************************************************************************)
RangeRuns ==
    { <<>>, <<"0">>, <<"1">>, <<"3">>, <<"0", "0", "7">>,
      <<"4", "2", "9", "4", "9", "6", "7", "2", "9", "5">>,
      <<"4", "2", "9", "4", "9", "6", "7", "2", "9", "6">> }

RangeShapes == [fam : {"range"}, a : RangeRuns, b : RangeRuns]

RenderRange(sh) == HeadA \o <<"x", "{">> \o sh.a \o <<".", ".">> \o sh.b \o <<"}">>

(***************************************************************************)
(* Family break: after lead indented lines, the term x is followed by a    *)
(* newline and then by: n spaces (ind), the end of input (eof), a second   *)
(* newline (blank), or further text at column 1 (flush); after stands for  *)
(* the text that comes next.  In ctx group the whole is parenthesized.     *)
(***************************************************************************)
BreakShapes ==
    [fam : {"break"}, ctx : {"top", "group"}, lead : 0..1, follow : {"ind"},
     n : 1..MaxIndent, after : {"none", "term", "op"}]
    \cup [fam : {"break"}, ctx : {"top", "group"}, lead : 0..1, follow : {"eof"},
          n : {0}, after : {"none"}]
    \cup [fam : {"break"}, ctx : {"top", "group"}, lead : 0..1, follow : {"blank"},
          n : {0}, after : {"none", "pipe"}]
    \cup [fam : {"break"}, ctx : {"top"}, lead : 0..1, follow : {"blank"},
          n : {0}, after : {"prod"}]
    \cup [fam : {"break"}, ctx : {"top", "group"}, lead : 0..1, follow : {"flush"},
          n : {0}, after : {"term", "prod"}]

AfterText(after) ==
    CASE after = "none" -> <<>>
      [] after = "term" -> Tick(<<"y">>)
      [] after = "op" -> <<"*">>
      [] after = "pipe" -> <<"|", " ">> \o Tick(<<"y">>)
      [] after = "prod" -> HeadB \o <<"y">>

FollowText(sh) ==
    CASE sh.follow = "ind" -> <<"\n">> \o Spaces(sh.n)
      [] sh.follow = "eof" -> <<"\n">>
      [] sh.follow = "blank" -> <<"\n", "\n">>
      [] sh.follow = "flush" -> <<"\n">>

LeadText(sh) == IF sh.lead = 0 THEN <<>> ELSE <<"z", "\n", " ">>

RenderBreak(sh) ==
    HeadA \o (IF sh.ctx = "group" THEN <<"(">> ELSE <<>>)
          \o LeadText(sh) \o <<"x">> \o FollowText(sh) \o AfterText(sh.after)
          \o (IF sh.ctx = "group" /\ sh.follow # "eof" THEN <<")">> ELSE <<>>)

(***************************************************************************)
(* Family neg: a tilde followed by operand; in ctx group the negation is   *)
(* parenthesized, in ctx seq it comes after the term x.                    *)
(***************************************************************************)
NegOperands ==
    {"charset", "terminal", "name", "underscore", "codepoint",
     "group", "prose", "op", "tilde", "space", "newline", "end"}

NegShapes == [fam : {"neg"}, ctx : {"top", "group", "seq"}, operand : NegOperands]

NegText(operand) ==
    CASE operand = "charset" -> <<"[">> \o Tick(<<"a">>) \o <<"-">> \o Tick(<<"z">>) \o <<"]">>
      [] operand = "terminal" -> Tick(<<"a">>)
      [] operand = "name" -> <<"n", "a", "m", "e">>
      [] operand = "underscore" -> <<"_", "x">>
      [] operand = "codepoint" -> <<"U", "+", "0", "0", "4", "1">>
      [] operand = "group" -> <<"(">> \o Tick(<<"a">>) \o <<" ">> \o Tick(<<"b">>) \o <<")">>
      [] operand = "prose" -> <<"<", "p", ">">>
      [] operand = "op" -> <<"*">>
      [] operand = "tilde" -> <<"~", "x">>
      [] operand = "space" -> <<" ", "x">>
      [] operand = "newline" -> <<"\n", " ", "x">>
      [] operand = "end" -> <<>>

RenderNeg(sh) ==
    HeadA \o (CASE sh.ctx = "top" -> <<"~">> \o NegText(sh.operand)
                [] sh.ctx = "group" -> <<"(", "~">> \o NegText(sh.operand) \o <<")">>
                [] sh.ctx = "seq" -> <<"x", " ", "~">> \o NegText(sh.operand))

(***************************************************************************)
(* Family term: one term made of a base form, a repetition modifier and a  *)
(* note (a suffix or a footnote); in ctx seq the term x follows it, in ctx *)
(* group it is parenthesized.                                              *)
(***************************************************************************)
TermBases == {"nt", "terminal", "neg", "charset", "prose", "unicode", "grouped"}
TermReps == {"none", "?", "*?", "+", "sp*", "range"}
TermNotes == {"none", "suffix", "footnote"}

TermShapes ==
    [fam : {"term"}, ctx : {"alone", "seq", "group"}, base : TermBases,
     rep : TermReps, note : TermNotes]

BaseText(base) ==
    CASE base = "nt" -> <<"x">>
      [] base = "terminal" -> Tick(<<"y">>)
      [] base = "neg" -> <<"~", "x">>
      [] base = "charset" -> <<"[">> \o Tick(<<"a">>) \o <<"]">>
      [] base = "prose" -> <<"<", "p", ">">>
      [] base = "unicode" -> <<"U", "+", "0", "0", "4", "1">>
      [] base = "grouped" -> <<"(", "x", ")">>

RepText(rep) ==
    CASE rep = "none" -> <<>>
      [] rep = "?" -> <<"?">>
      [] rep = "*?" -> <<"*", "?">>
      [] rep = "+" -> <<"+">>
      [] rep = "sp*" -> <<" ", "*">>
      [] rep = "range" -> <<"{", "1", ".", ".", "2", "}">>

NoteText(note) ==
    CASE note = "none" -> <<>>
      [] note = "suffix" -> <<" ", "_", "n", "_">>
      [] note = "footnote" -> <<"[", "^", "1", "]">>

TermText(sh) == BaseText(sh.base) \o RepText(sh.rep) \o NoteText(sh.note)

RenderTerm(sh) ==
    HeadA \o (CASE sh.ctx = "alone" -> TermText(sh)
                [] sh.ctx = "seq" -> TermText(sh) \o <<" ", "x">>
                [] sh.ctx = "group" -> <<"(">> \o TermText(sh) \o <<" ", ")">>)

(***************************************************************************)
(* Family chunk: the productions a and b, with sep between the end of a's  *)
(* text and the start of b, which is its @root marker or its name.         *)
(***************************************************************************)
ChunkSeps == {"blank", "blank2", "newline", "indent", "space", "spaces", "none"}

ChunkShapes == [fam : {"chunk"}, sep : ChunkSeps, root : BOOLEAN, name : {"b", "_b"}]

SepText(sep) ==
    CASE sep = "blank" -> <<"\n", "\n">>
      [] sep = "blank2" -> <<"\n", "\n", "\n">>
      [] sep = "newline" -> <<"\n">>
      [] sep = "indent" -> <<"\n", " ">>
      [] sep = "space" -> <<" ">>
      [] sep = "spaces" -> <<" ", " ">>
      [] sep = "none" -> <<>>

RenderChunk(sh) ==
    HeadA \o Tick(<<"x">>) \o SepText(sh.sep)
          \o (IF sh.root THEN Root ELSE <<>>)
          \o (IF sh.name = "b" THEN <<"b">> ELSE <<"_", "b">>)
          \o Arrow \o <<" ">> \o Tick(<<"y">>)

\* one call of parse_grammar on a fresh registry, for each family of chunks
ParseFresh(input, shape) == calls = 0 /\ ParseGrammar(input, shape)

NextParse ==
    \/ \E sh \in AltShapes : \E input \in {RenderAlt(sh)} : ParseFresh(input, sh)
    \/ \E sh \in RangeShapes : \E input \in {RenderRange(sh)} : ParseFresh(input, sh)
    \/ \E sh \in BreakShapes : \E input \in {RenderBreak(sh)} : ParseFresh(input, sh)
    \/ \E sh \in NegShapes : \E input \in {RenderNeg(sh)} : ParseFresh(input, sh)
    \/ \E sh \in TermShapes : \E input \in {RenderTerm(sh)} : ParseFresh(input, sh)
    \/ \E sh \in ChunkShapes : \E input \in {RenderChunk(sh)} : ParseFresh(input, sh)

SpecParse == Init /\ [][NextParse]_vars

(***************************************************************************)
(* Properties of the registry (specification Spec).                        *)
(***************************************************************************)
DuplicateFmt == "duplicate production {} in grammar"

\* whether the k-th production the call parsed has a name that is already
\* a key: of the registry before the call, or of an earlier production
Clashes(k) ==
    \/ call.parsed[k].production.name \in DOMAIN call.pre.productions
    \/ \E j \in 1..(k - 1) :
           call.parsed[j].production.name = call.parsed[k].production.name

RECURSIVE Registered(_, _)
\* the registry after inserting the first k productions the call parsed,
\* none of which clashes
Registered(g, k) ==
    IF k = 0 THEN g
    ELSE LET before == Registered(g, k - 1)
             prod == call.parsed[k].production
         IN  [name_order |-> Append(before.name_order, prod.name),
              productions |-> [n \in DOMAIN before.productions \cup {prod.name} |->
                                  IF n = prod.name THEN prod
                                  ELSE before.productions[n]]]

\* C1: when parse_grammar reaches a production whose name is already a key
\* of the registry, the call fails with the duplicate-production error
\* naming it, the production mapped to that name is still the one
\* registered first, and the registry holds exactly the insertions made
\* before the failing production.
C1_DuplicateLeavesRegistry ==
    \A k \in 1..Len(call.parsed) :
        Clashes(k) /\ (\A j \in 1..(k - 1) : ~Clashes(j)) =>
            /\ call.st = "Err"
            /\ call.err.message = Msg(DuplicateFmt, <<call.parsed[k].production.name>>)
            /\ grammar = Registered(call.pre, k - 1)

NoDuplicates(seq) == \A i, j \in 1..Len(seq) : seq[i] = seq[j] => i = j

\* C2: in every state reached from the empty registry by parse_grammar
\* calls, name_order holds no name twice and is as long as productions has
\* keys.
C2_NameOrderMatchesKeys ==
    /\ NoDuplicates(grammar.name_order)
    /\ Len(grammar.name_order) = Cardinality(DOMAIN grammar.productions)

(***************************************************************************)
(* Properties of translate_position (specification SpecTranslate).         *)
(***************************************************************************)
\* the number of newlines before offset index
NewlinesBefore(s, index) == Cardinality({i \in 1..index : s[i] = "\n"})

\* the offset at which the line holding offset index starts: after the
\* last newline before index
LineStart(s, index) ==
    IF NewlinesBefore(s, index) = 0 THEN 0
    ELSE CHOOSE i \in 1..index : s[i] = "\n" /\ \A j \in (i + 1)..index : s[j] # "\n"

\* the text from offset start up to the next newline or the end
LineFrom(s, start) == Slice(s, start, start + RunLenNot(s, start, {"\n"}))

\* C3: for a non-empty text and an offset from 0 through its length,
\* translate_position returns the line holding the offset (an offset on a
\* terminating newline belongs to the line it ends, an offset past the
\* last newline to an empty last line), the line number 1 + the number of
\* newlines before the offset, and the column offset - line start + 1.
C3_PositionLaw ==
    pos.input # <<>> =>
        /\ pos.line \in {LineFrom(pos.input, LineStart(pos.input, pos.index)),
                         StripCr(LineFrom(pos.input, LineStart(pos.input, pos.index)))}
        /\ pos.lineno = 1 + NewlinesBefore(pos.input, pos.index)
        /\ pos.col = pos.index - LineStart(pos.input, pos.index) + 1

(***************************************************************************)
(* Properties of one call on a fresh registry (specification SpecParse).   *)
(***************************************************************************)
Parsed(k) == call.parsed[k].production.expression
Accepted == call.st = "Ok"

\* a list of terms as parse_seq is to return it
AsSequence(terms) ==
    IF Len(terms) = 1 THEN terms[1] ELSE E(List("Sequence", terms))

\* the tree an alt shape describes
AltTree(sh) ==
    LET seqs == [i \in 1..Len(sh.lens) |->
                    AsSequence([j \in 1..sh.lens[i] |-> AltTermTrees[AltTerm(sh, i, j)]])]
    IN  IF Len(seqs) = 1 THEN seqs[1] ELSE E(List("Alt", seqs))

\* C4: sequencing binds tighter than alternation: k >= 2 sequences
\* separated by pipes parse to an Alt of k children in source order, each
\* the single term of its sequence or a Sequence of its terms in source
\* order; one sequence comes without an Alt wrapper and one term without a
\* Sequence wrapper.
C4_AltOfSequences ==
    call.shape.fam = "alt" =>
        /\ Accepted
        /\ Len(call.parsed) = 1
        /\ Parsed(1) = AltTree(call.shape)

C4_Witness ==
    /\ call.shape.fam = "alt"
    /\ call.shape.lens = <<2, 1>>
    /\ Accepted
    /\ Parsed(1).kind.tag = "Alt"
    /\ Parsed(1).kind.items[1].kind.tag = "Sequence"
    /\ Parsed(1).kind.items[2].kind.tag # "Sequence"

RECURSIVE RunValue(_, _, _)
\* the number a digit run writes, as limbs, whatever its size
RunValue(digits, k, acc) ==
    IF k > Len(digits) THEN acc
    ELSE LET low == acc.lo * 10 + DigitValue(digits[k])
         IN  RunValue(digits, k + 1,
                      U32(acc.hi * 10 + (low \div LimbBase), low % LimbBase))

\* the bound a digit run stands for: None where the run is absent
RunBound(digits) ==
    IF digits = <<>> THEN NoU32
    ELSE [some |-> TRUE, v |-> RunValue(digits, 1, U32(0, 0))]

\* C5: a term followed by a range modifier of two optional digit runs of
\* any length: with both present and the second below the first the parse
\* fails with the malformed-range error; otherwise the term becomes
\* RepeatRange(inner, min, max) with the runs' values, None where a run is
\* absent.  The call returns Ok or Err in every case.
C5_RangeBounds ==
    call.shape.fam = "range" =>
        LET a == RunBound(call.shape.a)
            b == RunBound(call.shape.b)
        IN  /\ call.st \in {"Ok", "Err"}
            /\ IF a.some /\ b.some /\ LtU32(b.v, a.v)
               THEN /\ call.st = "Err"
                    /\ call.err.message = Msg("range {a}..{b} is malformed", <<a.v, b.v>>)
               ELSE /\ Accepted
                    /\ Parsed(1) = E(RepeatRange(NtX, a, b))

RepeatTags ==
    {"Optional", "Repeat", "RepeatNonGreedy", "RepeatPlus", "RepeatPlusNonGreedy",
     "RepeatRange"}

RECURSIVE Nodes(_)
\* every Expression of a tree
Nodes(e) == {e} \cup UNION {Nodes(e.kind.items[i]) : i \in 1..Len(e.kind.items)}

\* every Expression of the registry
AllNodes == UNION {Nodes(grammar.productions[n].expression) : n \in DOMAIN grammar.productions}

\* a term without its repetition modifier
Unrepeated(e) == IF e.kind.tag \in RepeatTags THEN e.kind.items[1] ELSE e

\* the expression of production a, out of its parentheses in ctx group
BreakBody(sh) ==
    IF sh.ctx = "group" THEN Parsed(1).kind.items[1] ELSE Parsed(1)

\* the terms a break shape has before the newline
BreakLead(sh) == (IF sh.lead = 0 THEN <<>> ELSE <<NtZ, E(Break(1))>>) \o <<NtX>>

IndentationFmt == "expected indentation on next line"

\* C6: when the term parser meets a newline, n >= 1 spaces after it make
\* it yield Break(n); another newline or the end of input make it yield
\* no term, which ends the enclosing sequence and produces no Break; and
\* further text without indentation fails with the indentation error,
\* reported at column 1 of the continuation line.
C6_LineBreak ==
    /\ \A e \in AllNodes : e.kind.tag = "Break" => e.kind.n >= 1
    /\ call.shape.fam = "break" =>
        LET sh == call.shape IN
        /\ sh.follow = "ind" =>
              /\ Accepted
              /\ BreakBody(sh).kind.tag = "Sequence"
              /\ SubSeq(BreakBody(sh).kind.items, 1, Len(BreakLead(sh))) = BreakLead(sh)
              /\ Unrepeated(BreakBody(sh).kind.items[Len(BreakLead(sh)) + 1])
                     = E(Break(sh.n))
        /\ sh.follow \in {"eof", "blank"} =>
              /\ call.err.message.fmt # IndentationFmt
              /\ Accepted <=> ~(sh.ctx = "group" /\ sh.follow = "eof")
              /\ Accepted =>
                    /\ BreakBody(sh) = IF sh.after = "pipe"
                                       THEN E(List("Alt", <<AsSequence(BreakLead(sh)), TermY>>))
                                       ELSE AsSequence(BreakLead(sh))
                    /\ Len(call.parsed) = IF sh.after = "prod" THEN 2 ELSE 1
        /\ sh.follow = "flush" =>
              /\ call.st = "Err"
              /\ call.err.message = Msg(IndentationFmt, <<>>)
              /\ call.err.lineno = sh.lead + 2
              /\ call.err.col = 1
              /\ call.err.line = AfterText(sh.after)
                                     \o (IF sh.ctx = "group" THEN <<")">> ELSE <<>>)

C6_Witness ==
    /\ call.shape.fam = "break"
    /\ call.shape.follow = "flush"
    /\ call.shape.lead = 1
    /\ call.st = "Err"
    /\ call.err.lineno = 3
    /\ call.err.col = 1

NegInner == {"Charset", "Terminal", "Nt"}

\* the operands of the neg family that are no charset, terminal or name
NegRejected == {"group", "prose", "op", "tilde", "space", "newline", "end"}

NegInnerRestricted ==
    \A e \in AllNodes :
        e.kind.tag = "NegExpression" => e.kind.items[1].kind.tag \in NegInner

\* C7 as stated: the inner node of every NegExpression is a Charset, a
\* Terminal or an Nt, and a tilde followed by anything else (a group, a
\* prose form, a codepoint literal, a repetition operator, another tilde,
\* the end of input) is rejected with an error.
C7_NegationOperand ==
    /\ NegInnerRestricted
    /\ call.shape.fam = "neg" /\ call.shape.operand \in NegRejected \cup {"codepoint"}
           => call.st = "Err"

\* C7 as amended: the inner node of every NegExpression is a Charset, a
\* Terminal or an Nt, and a term that starts with a tilde followed by
\* anything else (a group, a prose form, a repetition operator, another
\* tilde, a space, a newline, the end of input) is rejected with an error;
\* a codepoint literal after the tilde is not rejected, its U is the name.
C7_NegationOperandAmended ==
    /\ NegInnerRestricted
    /\ call.shape.fam = "neg" /\ call.shape.operand \in NegRejected => call.st = "Err"
    /\ call.shape.fam = "neg" /\ call.shape.operand = "codepoint" /\ call.shape.ctx = "top" =>
           /\ Accepted
           /\ Parsed(1).kind.tag = "Sequence"
           /\ Parsed(1).kind.items[1] =
                  E(Wrap("RepeatPlus", E(Wrap("NegExpression", E(Leaf("Nt", <<"U">>))))))

C7_Witness ==
    /\ call.shape.fam = "neg"
    /\ call.shape.operand = "prose"
    /\ call.st = "Err"
    /\ call.err.message.fmt = "expected a charset, terminal, or name after ~ negation"

Wrappers == RepeatTags \cup {"NegExpression"}

\* the term of a term shape, in the tree of production a
TheTerm(sh) ==
    IF sh.ctx = "alone" THEN Parsed(1) ELSE Parsed(1).kind.items[1]

RepTag(rep) ==
    CASE rep = "?" -> "Optional"
      [] rep = "*?" -> "RepeatNonGreedy"
      [] rep = "+" -> "RepeatPlus"
      [] rep = "sp*" -> "Repeat"
      [] rep = "range" -> "RepeatRange"

BaseTag(base) ==
    CASE base = "nt" -> "Nt"
      [] base = "terminal" -> "Terminal"
      [] base = "neg" -> "NegExpression"
      [] base = "charset" -> "Charset"
      [] base = "prose" -> "Prose"
      [] base = "unicode" -> "Unicode"
      [] base = "grouped" -> "Grouped"

Unannotated(e) == e.suffix = None /\ e.footnote = None

\* C8: suffix and footnote are parsed once per term, after the repetition
\* modifier, and attach to the term's outermost node: the inner Expression
\* of every repetition and negation node has neither, and neither has any
\* Alt or Sequence node.
C8_NotesOnOutermost ==
    /\ \A e \in AllNodes :
          /\ e.kind.tag \in Wrappers => Unannotated(e.kind.items[1])
          /\ e.kind.tag \in {"Alt", "Sequence"} => Unannotated(e)
    /\ call.shape.fam = "term" =>
          LET sh == call.shape IN
          /\ Accepted
          /\ TheTerm(sh).suffix = IF sh.note = "suffix" THEN Some(<<"n">>) ELSE None
          /\ TheTerm(sh).footnote = IF sh.note = "footnote" THEN Some(<<"1">>) ELSE None
          /\ IF sh.rep = "none"
             THEN TheTerm(sh).kind.tag = BaseTag(sh.base)
             ELSE /\ TheTerm(sh).kind.tag = RepTag(sh.rep)
                  /\ TheTerm(sh).kind.items[1].kind.tag = BaseTag(sh.base)

C8_Witness ==
    /\ call.shape.fam = "term"
    /\ call.shape.base = "neg"
    /\ call.shape.rep = "*?"
    /\ call.shape.note = "suffix"
    /\ Accepted
    /\ TheTerm(call.shape).suffix = Some(<<"n">>)
    /\ TheTerm(call.shape).kind.tag = "RepeatNonGreedy"
    /\ TheTerm(call.shape).kind.items[1].kind.tag = "NegExpression"

\* C9: in a successful call that registers two or more productions of one
\* chunk, every production after the first starts (at its @root marker or
\* its name) right after a blank line, two consecutive newlines; a chunk
\* whose second production starts otherwise is not accepted.
C9_BlankLineBetween ==
    Accepted =>
        \A k \in 2..Len(call.parsed) :
            /\ call.parsed[k].start >= 2
            /\ call.input[call.parsed[k].start] = "\n"
            /\ call.input[call.parsed[k].start - 1] = "\n"

\* C10: throughout a parse_grammar call the scanner offset never decreases
\* and never exceeds the input length: every scanner operation leaves it
\* at or after its previous value, and peek, eof and a take_str, take_re
\* or expect that does not match leave it unchanged.
C10_OffsetMonotone ==
    \A i \in 1..Len(call.log) :
        /\ call.log[i].from = IF i = 1 THEN 0 ELSE call.log[i - 1].to
        /\ call.log[i].from <= call.log[i].to
        /\ call.log[i].to <= Len(call.input)
        /\ call.log[i].op \in {"peek", "eof"} \/ ~call.log[i].hit
               => call.log[i].to = call.log[i].from

C10_Witness ==
    /\ call.shape.fam = "term"
    /\ call.shape.note = "suffix"
    /\ call.index = Len(call.input)
    /\ \E i \in 1..Len(call.log) : call.log[i].op = "advance"
    /\ \E i \in 1..Len(call.log) :
           call.log[i].op = "take_str" /\ call.log[i].hit /\ call.log[i].to = call.log[i].from + 2
    /\ \E i \in 1..Len(call.log) : call.log[i].op = "take_re" /\ ~call.log[i].hit

====
